---- MODULE Spec2Model ----
(***************************************************************************)
(* Model of sparklines.py (Pandas Sparklines): the renderer `sparkline`,   *)
(* the column transformer `create` and the two presenters `show` and       *)
(* `to_html`, together with the process-wide state they touch: the two     *)
(* pandas display options and matplotlib's registry of open figures.       *)
(*                                                                         *)
(* Lengths are in hundredths of an inch, so figsize (4, 0.25) is           *)
(* <<400, 25>>.  A Python None / "no value" is the empty sequence.          *)
(***************************************************************************)
EXTENDS Integers, Sequences, FiniteSets, TLC

VARIABLES
    max_colwidth,   \* pandas option display.max_colwidth
    max_seq_items,  \* pandas option display.max_seq_items
    figs,           \* number of figures open in matplotlib.pyplot
    frame,          \* the caller's DataFrame object
    displayed,      \* what the notebook has been asked to display
    files,          \* names of the files written
    op,             \* the call just made: its name ("idle" between calls)
    args,           \* ... its arguments
    pre,            \* ... the process state when it was made
    raised,         \* ... whether it ended in an exception
    returned,       \* ... its return value (<<>> is None)
    calls,          \* ... the sparkline calls it made, in order
    written         \* ... the column it assigned (<<>> if none)

vars == <<max_colwidth, max_seq_items, figs, frame, displayed, files,
          op, args, pre, raised, returned, calls, written>>

----------------------------------------------------------------------------
(* Bounds of the model *)

MaxRows == 2
MaxLen == 2
MaxVal == 2
MaxFigs == 1

(* Constants of the program and of the libraries it configures *)

DefaultColwidth == 50
DefaultSeqItems == 100
UnboundedColwidth == 0 - 1
SparkSeqItems == 2
DefaultFigsize == <<400, 25>>
DefaultTitle == "sparklines"

----------------------------------------------------------------------------
(* Values *)

Range(s) == {s[i] : i \in 1..Len(s)}

SeqsUpTo(S, n) == UNION {[1..k -> S] : k \in 0..n}

\* cells of a DataFrame: a scalar, a numeric sequence, or image markup
AtomCell(k) == [kind |-> "atom", val |-> <<k>>, figsize |-> <<>>, ops |-> <<>>]
SeqCell(s) == [kind |-> "seq", val |-> s, figsize |-> <<>>, ops |-> <<>>]
NoCell == [kind |-> "none", val |-> <<>>, figsize |-> <<>>, ops |-> <<>>]

\* the inputs of the renderer
NumericSequences == SeqsUpTo(1..MaxVal, MaxLen)

\* the sequences in the rows of a dataset: k, k-1, ..., 1, and the empty one
Countdown(k) == [i \in 1..k |-> k + 1 - i]
RowSequences == {Countdown(k) : k \in 0..MaxLen}

\* a DataFrame: ordered column names, ordered row labels, one column of
\* cells per name
DataFrame(cols, n, cells) ==
    [cols |-> cols, index |-> [i \in 1..n |-> i - 1], cells |-> cells]

NRows(df) == Len(df.index)

\* the datasets a caller starts with: an id column and one column of
\* numeric sequences, which is called "data" or "sparklines"; possibly an
\* older "sparklines" column of scalars
Layouts ==
    { [cols |-> <<"id", "data">>, src |-> "data"],
      [cols |-> <<"id", "data", "sparklines">>, src |-> "data"],
      [cols |-> <<"sparklines", "id">>, src |-> "sparklines"] }

LayoutFrame(l, n, series) ==
    DataFrame(l.cols, n,
              [c \in Range(l.cols) |->
                  IF c = l.src THEN [i \in 1..n |-> SeqCell(series[i])]
                  ELSE [i \in 1..n |-> AtomCell(i)]])

InitFrames ==
    {LayoutFrame(l, Len(series), series) :
        l \in Layouts, series \in SeqsUpTo(RowSequences, MaxRows)}

----------------------------------------------------------------------------
(* Display options: column_sparklines and column_reset *)

\* pd.set_option('display.max_colwidth', -1); ('display.max_seq_items', 2)
column_sparklines(options) ==
    [options EXCEPT !.max_colwidth = UnboundedColwidth,
                    !.max_seq_items = SparkSeqItems]

\* pd.reset_option(...): back to the library's defaults
column_reset(options) ==
    [options EXCEPT !.max_colwidth = DefaultColwidth,
                    !.max_seq_items = DefaultSeqItems]

----------------------------------------------------------------------------
(* The renderer: sparkline *)

Min(s) == CHOOSE m \in Range(s) : \A x \in Range(s) : m <= x

\* range(n) as a sequence: 0, 1, ..., n-1
PyRange(n) == [i \in 1..n |-> i - 1]

\* plt.plot(data, **kwargs)
LineOp(data) ==
    [op |-> "line", xs |-> PyRange(Len(data)), ys |-> data, base |-> <<>>]

\* plt.fill_between(range(plot_len), data, plot_len*[plot_min], ...)
FillOp(data, plot_len, plot_min) ==
    [op |-> "fill", xs |-> PyRange(plot_len), ys |-> data,
     base |-> [i \in 1..plot_len |-> plot_min]]

\* plt.plot(point_x, data[point_x], marker=..., ...); data is 0-indexed there
MarkerOp(data, point_x) ==
    [op |-> "marker", xs |-> <<point_x>>, ys |-> <<data[point_x + 1]>>,
     base |-> <<>>]

\* the <img> tag that carries the base64 encoding of the saved figure
Html(figsize, drawn) ==
    [kind |-> "img", val |-> <<>>, figsize |-> figsize, ops |-> drawn]

\* One call of sparkline.  The figure is opened first; min(data) raises on
\* an empty sequence; plt.close() is reached only on the normal path.
\* The options point and fill are accepted and not consulted.
sparkline(data, point, fill, figsize) ==
    IF Len(data) = 0
    THEN [raised |-> TRUE, html |-> NoCell, opened |-> 1, closed |-> 0]
    ELSE LET plot_len == Len(data)
             plot_min == Min(data)
             point_x == plot_len - 1
             drawn == <<LineOp(data),
                        FillOp(data, plot_len, plot_min),
                        MarkerOp(data, point_x)>>
         IN  [raised |-> FALSE, html |-> Html(figsize, drawn),
              opened |-> 1, closed |-> 1]

----------------------------------------------------------------------------
(* The column transformer: create *)

\* the keyword arguments create forwards: sparkline's own named options
PointOf(kwargs) == IF "point" \in DOMAIN kwargs THEN kwargs["point"] ELSE TRUE
FillOf(kwargs) == IF "fill" \in DOMAIN kwargs THEN kwargs["fill"] ELSE TRUE

\* lambda x: sparkline(x, figsize=figsize, **kwargs)
RenderRow(x, figsize, kwargs) ==
    sparkline(x, PointOf(kwargs), FillOf(kwargs), figsize)

CallRecord(i, x, figsize, kwargs, r) ==
    [row |-> i, data |-> x, figsize |-> figsize, point |-> PointOf(kwargs),
     raised |-> r.raised, html |-> r.html]

RECURSIVE MapFrom(_, _, _, _, _)
MapFrom(series, i, figsize, kwargs, acc) ==
    IF i > Len(series) THEN acc
    ELSE LET x == series[i].val
             r == RenderRow(x, figsize, kwargs)
             log == Append(acc.calls, CallRecord(i, x, figsize, kwargs, r))
             leak == acc.leaked + r.opened - r.closed
         IN  IF r.raised
             THEN [acc EXCEPT !.raised = TRUE, !.calls = log, !.leaked = leak]
             ELSE MapFrom(series, i + 1, figsize, kwargs,
                          [acc EXCEPT !.cells = Append(@, r.html),
                                      !.calls = log, !.leaked = leak])

\* variant: the rows are rendered last to first
SeriesMapReversed(series, figsize, kwargs) ==
    MapFrom([i \in 1..Len(series) |-> series[Len(series) + 1 - i]], 1,
            figsize, kwargs,
            [raised |-> FALSE, cells |-> <<>>, calls |-> <<>>, leaked |-> 0])

\* variant: a row that cannot be rendered gets a placeholder and the map
\* goes on
SeriesMapSkip(series, figsize, kwargs) ==
    LET r(i) == RenderRow(series[i].val, figsize, kwargs)
        failing == {i \in 1..Len(series) : r(i).raised}
    IN  [raised |-> FALSE,
         cells |-> [i \in 1..Len(series) |-> r(i).html],
         calls |-> [i \in 1..Len(series) |->
                      CallRecord(i, series[i].val, figsize, kwargs, r(i))],
         leaked |-> Cardinality(failing)]

\* Series.map: the function is applied to the elements in order; an exception
\* in one application ends the map and no Series is produced
SeriesMap(series, figsize, kwargs) ==
    MapFrom(series, 1, figsize, kwargs,
            [raised |-> FALSE, cells |-> <<>>, calls |-> <<>>, leaked |-> 0])

\* variant: the column is always appended
SetItemAppend(df, title, column) ==
    [df EXCEPT !.cols = Append(@, title),
               !.cells = [c \in DOMAIN @ \cup {title} |->
                            IF c = title THEN column ELSE @[c]]]

\* df[title] = column: an existing column is overwritten where it stands, a
\* new one is appended
SetItem(df, title, column) ==
    [df EXCEPT !.cols = IF title \in Range(df.cols) THEN @
                        ELSE Append(@, title),
               !.cells = [c \in DOMAIN @ \cup {title} |->
                            IF c = title THEN column ELSE @[c]]]

\* df[columns] with a list of names
GetItem(df, columns) ==
    [df EXCEPT !.cols = columns,
               !.cells = [c \in Range(columns) |-> @[c]]]

\* the columns argument: None, a str, a tuple or a list
NoColumns == [type |-> "None", name |-> "", names |-> <<>>]
StrColumns(c) == [type |-> "str", name |-> c, names |-> <<>>]
TupleColumns(cs) == [type |-> "tuple", name |-> "", names |-> cs]
ListColumns(cs) == [type |-> "list", name |-> "", names |-> cs]

NormalizeColumns(columns) ==
    IF columns.type # "None"
    THEN IF columns.type = "tuple" THEN columns.names
         ELSE IF columns.type = "str" THEN <<columns.name>>
         ELSE columns.names
    ELSE <<>>

\* variant: the title is appended without looking
WithTitleAlways(columns, title) == columns \o <<title>>

\* if title not in columns: columns = columns + [title]
WithTitle(columns, title) ==
    IF title \notin Range(columns) THEN columns \o <<title>> ELSE columns

\* variant: df = dataframe, the same object under a second name
DataFrameAlias(ref) == ref

\* df = dataframe.copy(): a new object, named "df" here; the caller's object
\* is named "dataframe"
DataFrameCopy(ref) == "df"

Raise(dataframe, m, title) ==
    [raised |-> TRUE, dataframe |-> dataframe, returned |-> <<>>,
     calls |-> m.calls, leaked |-> m.leaked, written |-> title]

create(dataframe, data, figsize, title, copy, columns, kwargs) ==
    LET none == [raised |-> FALSE, cells |-> <<>>, calls |-> <<>>,
                 leaked |-> 0]
    IN
    IF data \notin Range(dataframe.cols)
    THEN Raise(dataframe, none, <<>>)
    ELSE
    LET sparkline_data == dataframe.cells[data]
        figsize1 == IF "figsize" \in DOMAIN kwargs THEN kwargs["figsize"]
                    ELSE DefaultFigsize
        title1 == IF "title" \in DOMAIN kwargs THEN kwargs["title"]
                  ELSE DefaultTitle
        m == SeriesMap(sparkline_data, figsize1, kwargs)
        heap == [o \in {"dataframe", "df"} |-> dataframe]
    IN
    IF copy
    THEN LET columns1 == NormalizeColumns(columns)
             df == DataFrameCopy("dataframe")
         IN  IF m.raised THEN Raise(heap["dataframe"], m, <<>>)
             ELSE LET heap1 == [heap EXCEPT ![df] = SetItem(@, title1, m.cells)]
                      columns2 == WithTitle(columns1, title1)
                  IN  IF ~(Range(columns2) \subseteq Range(heap1[df].cols))
                      THEN Raise(heap1["dataframe"], m, <<title1>>)
                      ELSE [raised |-> FALSE,
                            dataframe |-> heap1["dataframe"],
                            returned |-> <<GetItem(heap1[df], columns2)>>,
                            calls |-> m.calls, leaked |-> m.leaked,
                            written |-> <<title1>>]
    ELSE IF m.raised THEN Raise(heap["dataframe"], m, <<>>)
         ELSE [raised |-> FALSE,
               dataframe |-> SetItem(heap["dataframe"], title1, m.cells),
               returned |-> <<>>,
               calls |-> m.calls, leaked |-> m.leaked,
               written |-> <<title1>>]

----------------------------------------------------------------------------
(* The presenters: show and to_html *)

\* a cell as DataFrame.to_html writes it: markup longer than the column
\* width limit is cut unless the limit is lifted
Shown(cell, options) ==
    IF cell.kind = "img" /\ options.max_colwidth # UnboundedColwidth
    THEN [cell EXCEPT !.ops = <<>>]
    ELSE cell

\* DataFrame.to_html(index=index, escape=False)
FrameToHtml(df, index, options) ==
    [header |-> (IF index THEN <<"">> ELSE <<>>) \o df.cols,
     rows |-> [i \in 1..NRows(df) |->
                 (IF index THEN <<AtomCell(df.index[i])>> ELSE <<>>)
                 \o [j \in 1..Len(df.cols) |->
                       Shown(df.cells[df.cols[j]][i], options)]]]

\* html_head + table + html_tail
Document(table) == <<"html_head", table, "html_tail">>

Options == [max_colwidth |-> max_colwidth, max_seq_items |-> max_seq_items]

Snapshot ==
    [max_colwidth |-> max_colwidth, max_seq_items |-> max_seq_items,
     figs |-> figs, frame |-> frame]

\* show(dataframe, index): outcome says which library call, if any, raises
Show(index, outcome) ==
    LET widened == column_sparklines(Options)
        table == FrameToHtml(frame, index, widened)
        final == IF outcome = "ok" THEN column_reset(widened) ELSE widened
    IN  /\ op = "idle"
        /\ max_colwidth' = final.max_colwidth
        /\ max_seq_items' = final.max_seq_items
        /\ displayed' = IF outcome = "ok" THEN <<table>> ELSE displayed
        /\ op' = "show"
        /\ args' = [index |-> index, outcome |-> outcome]
        /\ pre' = Snapshot
        /\ raised' = (outcome # "ok")
        /\ returned' = <<>>
        /\ calls' = <<>>
        /\ written' = <<>>
        /\ UNCHANGED <<figs, frame, files>>

\* to_html(dataframe, filename)
ToHtml(filename, outcome) ==
    LET widened == column_sparklines(Options)
        a == FrameToHtml(frame, TRUE, widened)
        final == IF outcome = "to_html_raises" THEN widened
                 ELSE column_reset(widened)
        name == <<filename, ".html">>
    IN  /\ op = "idle"
        /\ max_colwidth' = final.max_colwidth
        /\ max_seq_items' = final.max_seq_items
        /\ files' = IF outcome = "ok"
                    THEN [n \in DOMAIN files \cup {name} |->
                            IF n = name THEN Document(a) ELSE files[n]]
                    ELSE files
        /\ op' = "to_html"
        /\ args' = [filename |-> filename, outcome |-> outcome]
        /\ pre' = Snapshot
        /\ raised' = (outcome # "ok")
        /\ returned' = <<>>
        /\ calls' = <<>>
        /\ written' = <<>>
        /\ UNCHANGED <<figs, frame, displayed>>

----------------------------------------------------------------------------
(* Calls of create and of sparkline *)

EmptyKwargs == [k \in {} |-> TRUE]

DataArgs == {"data", "sparklines", "missing"}
FigsizeArgs == {<<>>, <<200, 50>>}
TitleArgs == {"sparklines", "trend"}
KwargsArgs == {EmptyKwargs, [k \in {"point"} |-> FALSE]}
ColumnsArgs ==
    {NoColumns, StrColumns("id"), TupleColumns(<<"id", "data">>),
     ListColumns(<<"id">>), ListColumns(<<"sparklines", "id">>),
     ListColumns(<<"trend">>)}

\* the source column holds numeric sequences (or does not exist)
Plottable(df, data) ==
    data \in Range(df.cols) =>
        \A i \in 1..NRows(df) : df.cells[data][i].kind = "seq"

Create(data, figsize, title, copy, columns, kwargs) ==
    /\ op = "idle"
    /\ Plottable(frame, data)
    /\ \E r \in {create(frame, data, figsize, title, copy, columns, kwargs)} :
        /\ figs + r.leaked <= MaxFigs
        /\ frame' = r.dataframe
        /\ figs' = figs + r.leaked
        /\ op' = "create"
        /\ args' = [data |-> data, figsize |-> figsize, title |-> title,
                    copy |-> copy, columns |-> columns, kwargs |-> kwargs]
        /\ pre' = Snapshot
        /\ raised' = r.raised
        /\ returned' = r.returned
        /\ calls' = r.calls
        /\ written' = r.written
        /\ UNCHANGED <<max_colwidth, max_seq_items, displayed, files>>

Sparkline(data, point, fill, figsize) ==
    /\ op = "idle"
    /\ \E r \in {sparkline(data, point, fill, figsize)} :
        /\ figs + r.opened - r.closed <= MaxFigs
        /\ figs' = figs + r.opened - r.closed
        /\ op' = "sparkline"
        /\ args' = [data |-> data, point |-> point, fill |-> fill,
                    figsize |-> figsize]
        /\ pre' = Snapshot
        /\ raised' = r.raised
        /\ returned' = IF r.raised THEN <<>> ELSE <<r.html>>
        /\ calls' = <<>>
        /\ written' = <<>>
        /\ UNCHANGED <<max_colwidth, max_seq_items, frame, displayed, files>>

\* The caller has looked at the outcome of its last call and moves on to its
\* next statement; what the call left in the process stays as it is.
Continue ==
    /\ op # "idle"
    /\ op' = "idle"
    /\ args' = <<>>
    /\ pre' = <<>>
    /\ raised' = FALSE
    /\ returned' = <<>>
    /\ calls' = <<>>
    /\ written' = <<>>
    /\ UNCHANGED <<max_colwidth, max_seq_items, figs, frame, displayed,
                   files>>

----------------------------------------------------------------------------
(* Specifications *)

ColwidthValues == {DefaultColwidth, 80}
SeqItemsValues == {DefaultSeqItems, 7}
FileNames == {"out"}

\* datasets that already carry a column of sparklines
SparkFrames ==
    {create(f, "data", <<>>, DefaultTitle, FALSE, NoColumns,
            EmptyKwargs).dataframe : f \in InitFrames}

NoCall ==
    /\ figs = 0
    /\ displayed = <<>>
    /\ files = [n \in {} |-> <<>>]
    /\ op = "idle"
    /\ args = <<>>
    /\ pre = <<>>
    /\ raised = FALSE
    /\ returned = <<>>
    /\ calls = <<>>
    /\ written = <<>>

InitRender ==
    /\ max_colwidth = DefaultColwidth
    /\ max_seq_items = DefaultSeqItems
    /\ frame = DataFrame(<<>>, 0, [c \in {} |-> <<>>])
    /\ NoCall

InitCreate ==
    /\ max_colwidth = DefaultColwidth
    /\ max_seq_items = DefaultSeqItems
    /\ frame \in InitFrames
    /\ NoCall

InitPresent ==
    /\ max_colwidth \in ColwidthValues
    /\ max_seq_items \in SeqItemsValues
    /\ frame \in InitFrames \cup SparkFrames
    /\ NoCall

NextRender ==
    \/ Continue
    \/ \E data \in NumericSequences, point \in BOOLEAN, fill \in BOOLEAN,
       figsize \in {DefaultFigsize, <<200, 50>>} :
        Sparkline(data, point, fill, figsize)

NextCreate ==
    \/ Continue
    \/ \E data \in DataArgs, figsize \in FigsizeArgs, title \in TitleArgs,
       copy \in BOOLEAN, kwargs \in KwargsArgs :
        \E columns \in (IF copy THEN ColumnsArgs ELSE {NoColumns}) :
            Create(data, figsize, title, copy, columns, kwargs)

NextPresent ==
    \/ Continue
    \/ \E index \in BOOLEAN,
          outcome \in {"ok", "to_html_raises", "display_raises"} :
            Show(index, outcome)
    \/ \E filename \in FileNames,
          outcome \in {"ok", "to_html_raises", "open_raises"} :
            ToHtml(filename, outcome)

SpecRender == InitRender /\ [][NextRender]_vars
SpecCreate == InitCreate /\ [][NextCreate]_vars
SpecPresent == InitPresent /\ [][NextPresent]_vars

----------------------------------------------------------------------------
(* Properties *)

Presented == op \in {"show", "to_html"}
Created == op = "create"
Rendered == op = "sparkline"

\* the dataset a create call produced: the returned one in copy mode, the
\* caller's own otherwise
Transformed == IF args.copy THEN returned[1] ELSE frame

\* the caller's source column as it was when create was called
SourceColumn == pre.frame.cells[args.data]

Count(s, x) == Cardinality({i \in 1..Len(s) : s[i] = x})

\* C1: after show or to_html returns, both display limits have the values
\* they had immediately before the call, whatever those values were.
C1_LimitsAsBeforeCall ==
    (Presented /\ ~raised) =>
        /\ max_colwidth = pre.max_colwidth
        /\ max_seq_items = pre.max_seq_items

\* C2: create with copy=True leaves the caller's dataset as it was: same
\* columns in the same order, same rows, same cell values, whether the call
\* returns or raises.
C2_CopyModeLeavesInput ==
    (Created /\ args.copy) => frame = pre.frame

C2_Witness ==
    /\ Created /\ args.copy /\ ~raised
    /\ NRows(pre.frame) > 0
    /\ args.columns.type = "list"
    /\ \E c \in Range(returned[1].cols) :
          \A i \in 1..NRows(returned[1]) : returned[1].cells[c][i].kind = "img"

\* C3 as stated: create with copy=False returns nothing and adds exactly one
\* column, every column the dataset had, the source column included, keeping
\* its values; also when the dataset already has a column with the
\* destination's name.
C3_AddsExactlyOneColumn ==
    (Created /\ ~args.copy /\ ~raised) =>
        /\ returned = <<>>
        /\ frame.cols = pre.frame.cols \o written
        /\ \A c \in Range(pre.frame.cols) :
              frame.cells[c] = pre.frame.cells[c]

\* C3 as amended: create with copy=False returns nothing; the destination
\* column is appended when the dataset has no column of that name and is
\* overwritten where it stands when it has one (also when that column is the
\* source); every other column keeps its values and the destination holds
\* one image per row.
C3_AddsOrOverwritesDestination ==
    (Created /\ ~args.copy /\ ~raised) =>
        /\ returned = <<>>
        /\ Len(written) = 1
        /\ frame.cols = IF written[1] \in Range(pre.frame.cols)
                        THEN pre.frame.cols
                        ELSE pre.frame.cols \o written
        /\ frame.index = pre.frame.index
        /\ \A c \in Range(pre.frame.cols) \ {written[1]} :
              frame.cells[c] = pre.frame.cells[c]
        /\ Len(frame.cells[written[1]]) = NRows(pre.frame)
        /\ \A i \in 1..NRows(pre.frame) :
              frame.cells[written[1]][i].kind = "img"

C3_Witness ==
    /\ Created /\ ~args.copy /\ ~raised
    /\ NRows(pre.frame) > 0
    /\ written # <<>>
    /\ written[1] \in Range(pre.frame.cols)
    /\ args.data # written[1]

\* the columns argument as a list of names
Requested(c) ==
    CASE c.type = "None" -> <<>>
      [] c.type = "str" -> <<c.name>>
      [] c.type = "tuple" -> c.names
      [] c.type = "list" -> c.names

\* C4: in copy mode the returned dataset's columns are the requested names
\* in the requested order, followed by the destination column if and only if
\* it was not requested; a requested destination stays where it was asked
\* for and appears once; columns=["id"] gives ["id", "sparklines"].
C4_ReturnedColumns ==
    (Created /\ args.copy /\ ~raised) =>
        LET req == Requested(args.columns)
            dest == written[1]
            cols == returned[1].cols
        IN  /\ cols = req \o (IF dest \in Range(req) THEN <<>> ELSE <<dest>>)
            /\ Count(req, dest) <= 1 => Count(cols, dest) = 1
            /\ dest \in Range(req) =>
                  \A i \in 1..Len(req) : req[i] = dest => cols[i] = dest
            /\ args.columns = ListColumns(<<"id">>) =>
                  cols = <<"id", "sparklines">>

C4_Witness ==
    /\ Created /\ args.copy /\ ~raised
    /\ args.columns = ListColumns(<<"sparklines", "id">>)
    /\ returned[1].cols = <<"sparklines", "id">>
    /\ NRows(returned[1]) > 0

\* C5: the destination column is the one named by the title argument, in
\* the caller's dataset (copy=False) or in the returned one (copy=True), and
\* every row is rendered at the figsize the caller passed.
C5_TitleAndFigsizeArguments ==
    (Created /\ ~raised) =>
        /\ written = <<args.title>>
        /\ args.title \in Range(Transformed.cols)
        /\ \A k \in 1..Len(calls) :
              calls[k].figsize = IF args.figsize = <<>> THEN DefaultFigsize
                                 ELSE args.figsize

\* C6: create keeps the rows: the transformed dataset has the same row
\* labels in the same order, the renderer is called once per row in row
\* order, and the destination cell of a row holds the render of that row's
\* sequence.
C6_RowsAndOrder ==
    (Created /\ ~raised) =>
        LET n == NRows(pre.frame)
            out == Transformed
            dest == out.cells[written[1]]
        IN  /\ out.index = pre.frame.index
            /\ \A c \in Range(out.cols) : Len(out.cells[c]) = n
            /\ Len(calls) = n
            /\ \A i \in 1..n :
                  /\ calls[i].row = i
                  /\ calls[i].data = SourceColumn[i].val
                  /\ dest[i] = calls[i].html
                  /\ dest[i].kind = "img"
                  /\ dest[i].ops[1].op = "line"
                  /\ dest[i].ops[1].ys = SourceColumn[i].val

C6_Witness ==
    /\ Created /\ ~raised
    /\ NRows(pre.frame) >= 2
    /\ SourceColumn[1].val # SourceColumn[2].val
    /\ Len(calls) = NRows(pre.frame)

\* C7: sparkline draws the marker of the last point exactly when the point
\* option is on: one marker at x = len(data)-1, y = data[-1] with point=True,
\* none with point=False.
C7_MarkerIffPoint ==
    (Rendered /\ ~raised) =>
        LET ops == returned[1].ops
            markers == {i \in 1..Len(ops) : ops[i].op = "marker"}
        IN  IF args.point
            THEN /\ Cardinality(markers) = 1
                 /\ \A i \in markers :
                       /\ ops[i].xs = <<Len(args.data) - 1>>
                       /\ ops[i].ys = <<args.data[Len(args.data)]>>
            ELSE markers = {}

\* C8: when show or to_html ends in an exception, the display limits are not
\* left widened: max_colwidth is not unbounded and max_seq_items is not 2.
C8_RestoredOnFailure ==
    (Presented /\ raised) =>
        /\ max_colwidth # UnboundedColwidth
        /\ max_seq_items # SparkSeqItems

\* C9: sparkline calls leave no figure open, also the calls that fail: the
\* number of open figures stays what it was before the first call.
C9_NoFigureLeft == figs = 0

\* the first row of the source column that cannot be rendered
FirstFailing ==
    CHOOSE i \in 1..NRows(pre.frame) :
        /\ Len(SourceColumn[i].val) = 0
        /\ \A j \in 1..(i - 1) : Len(SourceColumn[j].val) # 0

\* C10: when the rendering of a row fails, create ends in that failure: the
\* rows after it are not rendered, nothing is returned and the caller's
\* dataset is as it was before the call.
C10_FailureAbortsCreate ==
    (/\ Created
     /\ args.data \in Range(pre.frame.cols)
     /\ \E i \in 1..NRows(pre.frame) : Len(SourceColumn[i].val) = 0) =>
        /\ raised
        /\ returned = <<>>
        /\ frame = pre.frame
        /\ Len(calls) = FirstFailing
        /\ \A k \in 1..Len(calls) : calls[k].row = k

C10_Witness ==
    /\ Created /\ ~args.copy /\ raised
    /\ args.data \in Range(pre.frame.cols)
    /\ "sparklines" \in Range(pre.frame.cols)
    /\ NRows(pre.frame) >= 2
    /\ Len(SourceColumn[1].val) = 0
    /\ Len(SourceColumn[2].val) # 0
    /\ Len(calls) = 1

====
